---------------------------- MODULE Spec2Model ----------------------------
(***************************************************************************)
(* The CadQuery demonstration scripts of the repository, as one state      *)
(* machine.  A process runs one script at a time from its first statement  *)
(* to its last; the working directory (fs) outlives the runs.  Every call  *)
(* into the CAD library either returns or raises.                          *)
(*                                                                         *)
(* A workplane is the set of features it holds, a feature being a record   *)
(* [op, kind, rot]: the operation that put it there, the primitive, and    *)
(* the rotation about Z applied to it (degrees).  A STEP file is the       *)
(* sequence of the solids it holds; output lines are pairs <<text, k>>.    *)
(***************************************************************************)
EXTENDS Integers, Sequences, FiniteSets

\* Largest number of solids the test.step of a run may hold.
MaxSolids == 15

----------------------------------------------------------------------------
\* Program constants

num_teeth == 20

num_mounting_holes == 4

\* step_view.py: if len(all_solids) > 8
RemoveThreshold == 8

\* step_view.py: all_solids[13:]
SliceStart == 13

ShowWidth == 800

ShowHeight == 800

ShowZoom == 2

ShowRoll == -20

ShowElevation == -30

GEAR == "example4_geared_wheel"
COLORS == "example_5_colors"
DIMENSION == "step_dimension"
TEST == "test"
RENDER == "step_render"
VIEW == "step_view"
PLATE == "example_1_plate_with_hole"
SPLINE == "example_2_spline"
SHELL == "example_3_shell"

Scripts == {GEAR, COLORS, DIMENSION, TEST, RENDER, VIEW, PLATE, SPLINE, SHELL}

STEP_FILE == "test.step"
SVG_FILE == "test2.svg"
PNG_FILE == "img.png"
ASSY_FILE == "colored_assembly.step"

FileNames == {STEP_FILE, SVG_FILE, PNG_FILE, ASSY_FILE}

\* The file exporters.export is given in step_render.py.
ExportTargetWrong == STEP_FILE
ExportTarget == SVG_FILE

\* The screenshot file show() is given in step_view.py.
Screenshot == PNG_FILE

Absent == [exists |-> FALSE, format |-> "", data |-> <<>>]
File(fmt, d) == [exists |-> TRUE, format |-> fmt, data |-> d]

\* The solids of a STEP file with n solids, in the order the importer
\* returns them; a solid's identity is not its position.
SolidsOf(n) == [k \in 1..n |-> n + 1 - k]

----------------------------------------------------------------------------
\* Python and library operations used by the scripts

\* s[k:]
Slice(s, k) == IF k >= Len(s) THEN <<>> ELSE SubSeq(s, k + 1, Len(s))

\* i * 360.0 / n, exact for the two pattern counts of the script
AngleOffByOne(idx, n) == ((idx + 1) * 360) \div n
Angle(idx, n) == (idx * 360) \div n

Feature(o, k) == [op |-> o, kind |-> k, rot |-> 0]

\* Workplane.rotate returns a rotated copy
Rotate(w, a) == {[f EXCEPT !.rot = @ + a] : f \in w}

Union(a, b) == a \cup b

Cut(a, b) == a \cup {[f EXCEPT !.op = "cut"] : f \in b}

\* The loop header "Solid {i+1}" of step_dimension.py and test.py
SolidNumberFromZero(idx) == idx
SolidNumber(idx) == idx + 1

ErrorLines == << <<"Error creating geared wheel: {e}", 0>>,
                 <<"This might be due to CadQuery version compatibility or geometry issues.", 0>> >>

\* What an exception raised at statement p of script s leads to: the
\* statement the run is left at, how the process stands, the lines printed.
UnwindReraise(s, p) == [pc |-> p, status |-> "fault", lines |-> <<>>]
UnwindSilent(s, p) ==
    IF s = GEAR THEN [pc |-> "done", status |-> "exit0", lines |-> <<>>]
    ELSE [pc |-> p, status |-> "fault", lines |-> <<>>]
UnwindCatchAll(s, p) == [pc |-> "done", status |-> "exit0", lines |-> ErrorLines]
Unwind(s, p) ==
    IF s = GEAR THEN [pc |-> "done", status |-> "exit0", lines |-> ErrorLines]
    ELSE [pc |-> p, status |-> "fault", lines |-> <<>>]

\* A call of show / show_object
ShowCall(kind, solids, w, h, file, z, r, e, inter) ==
    [kind |-> kind, solids |-> solids, width |-> w, height |-> h,
     screenshot |-> file, zoom |-> z, roll |-> r, elevation |-> e,
     interact |-> inter]

\* show_object(result) / show(assy): no keyword given
ShowDefault(kind) == ShowCall(kind, <<>>, 0, 0, "", 0, 0, 0, TRUE)

----------------------------------------------------------------------------
VARIABLES
    script,           \* the script being run ("" before the first run)
    pc,               \* the statement the run is at
    status,           \* "idle", "running", "exit0" (ended normally), "fault"
    out,              \* standard output of the run
    failedAt,         \* the statement whose library call raised, "" if none
    fs,               \* the working directory: file name -> file
    input,            \* the test.step the directory was set up with
    reads, writes,    \* the files the run has read / written
    i,                \* loop index
    wheel, tooth, teeth, base_hole, mounting_holes, result,   \* geared wheel
    assy,             \* colored assembly: set of [name, loc, color]
    imported,         \* importStep's result: the solids of the file
    all_solids, remaining_solids,
    shown             \* the show / show_object calls of the run

proc == <<script, pc, status, out, failedAt>>
dir == <<fs, input, reads, writes>>
gear == <<wheel, tooth, teeth, base_hole, mounting_holes, result>>
step == <<imported, all_solids, remaining_solids>>
vars == <<proc, dir, i, gear, assy, step, shown>>

FirstStatement(s) ==
    CASE s = GEAR -> "body"
      [] s = COLORS -> "parts"
      [] s \in {DIMENSION, TEST, RENDER, VIEW} -> "import"
      [] OTHER -> "build"

Locals0 ==
    /\ i = 0
    /\ wheel = {} /\ tooth = {} /\ teeth = {} /\ base_hole = {}
    /\ mounting_holes = {} /\ result = {}
    /\ assy = {}
    /\ imported = <<>> /\ all_solids = <<>> /\ remaining_solids = <<>>
    /\ shown = <<>>

Init ==
    /\ script = "" /\ pc = "" /\ status = "idle" /\ out = <<>> /\ failedAt = ""
    /\ \E present \in BOOLEAN, n \in 0..MaxSolids :
          input = IF present THEN File("step", SolidsOf(n)) ELSE Absent
    /\ fs = [f \in FileNames |-> IF f = STEP_FILE THEN input ELSE Absent]
    /\ reads = {} /\ writes = {}
    /\ Locals0

\* python <script>.py: a new process, once the previous one has ended.
Start ==
    /\ status # "running"
    /\ \E s \in Scripts :
          /\ script' = s
          /\ pc' = FirstStatement(s)
    /\ status' = "running"
    /\ out' = <<>> /\ failedAt' = ""
    /\ reads' = {} /\ writes' = {}
    /\ i' = 0
    /\ wheel' = {} /\ tooth' = {} /\ teeth' = {} /\ base_hole' = {}
    /\ mounting_holes' = {} /\ result' = {}
    /\ assy' = {}
    /\ imported' = <<>> /\ all_solids' = <<>> /\ remaining_solids' = <<>>
    /\ shown' = <<>>
    /\ UNCHANGED <<fs, input>>

At(s, p) == script = s /\ status = "running" /\ pc = p

\* The library call of the statement at pc raises.
Raise ==
    LET u == Unwind(script, pc) IN
    /\ pc' = u.pc
    /\ status' = u.status
    /\ out' = out \o u.lines
    /\ failedAt' = pc
    /\ UNCHANGED script

\* The statement at pc completes, printing lines, and control goes to p.
Goto(p, lines) ==
    /\ pc' = p
    /\ out' = out \o lines
    /\ UNCHANGED <<script, status, failedAt>>

\* The last statement of the script completes.
Exit(lines) ==
    /\ pc' = "done"
    /\ status' = "exit0"
    /\ out' = out \o lines
    /\ UNCHANGED <<script, failedAt>>

----------------------------------------------------------------------------
\* examples/example4_geared_wheel.py

GearProgress ==
    << <<"Created wheel body", 0>>,
       <<"Created center hole", 0>>,
       <<"Created tooth profile", 0>>,
       <<"Created {num_teeth} teeth in circular pattern", num_teeth>>,
       <<"Combined wheel with teeth", 0>>,
       <<"Created {num_mounting_holes} mounting holes", num_mounting_holes>>,
       <<"Cut mounting holes from wheel", 0>>,
       <<"Displaying 3D model...", 0>> >>

GearBanner == <<"Geared wheel created successfully!", 0>>

GearSummary ==
    << GearBanner,
       <<"Outer diameter: {outer_diameter}mm", 80>>,
       <<"Inner diameter: {inner_diameter}mm", 20>>,
       <<"Thickness: {thickness}mm", 8>>,
       <<"Number of teeth: {num_teeth}", num_teeth>>,
       <<"Number of mounting holes: {num_mounting_holes}", num_mounting_holes>> >>

GW_Body ==
    /\ At(GEAR, "body")
    /\ \/ /\ wheel' = {Feature("add", "cylinder")}
          /\ Goto("hole", <<GearProgress[1]>>)
       \/ Raise /\ UNCHANGED wheel
    /\ UNCHANGED <<dir, i, tooth, teeth, base_hole, mounting_holes, result,
                   assy, step, shown>>

GW_Hole ==
    /\ At(GEAR, "hole")
    /\ \/ /\ wheel' = Cut(wheel, {Feature("add", "center_hole")})
          /\ Goto("tooth", <<GearProgress[2]>>)
       \/ Raise /\ UNCHANGED wheel
    /\ UNCHANGED <<dir, i, tooth, teeth, base_hole, mounting_holes, result,
                   assy, step, shown>>

GW_Tooth ==
    /\ At(GEAR, "tooth")
    /\ \/ /\ tooth' = {Feature("add", "tooth")}
          /\ Goto("teeth_init", <<GearProgress[3]>>)
       \/ Raise /\ UNCHANGED tooth
    /\ UNCHANGED <<dir, i, wheel, teeth, base_hole, mounting_holes, result,
                   assy, step, shown>>

GW_TeethInit ==
    /\ At(GEAR, "teeth_init")
    /\ \/ /\ teeth' = {} /\ i' = 0
          /\ Goto("teeth_loop", <<>>)
       \/ Raise /\ UNCHANGED <<teeth, i>>
    /\ UNCHANGED <<dir, wheel, tooth, base_hole, mounting_holes, result,
                   assy, step, shown>>

\* One pass of "for i in range(num_teeth)": rotate a copy, union it in.
GW_TeethIter ==
    /\ At(GEAR, "teeth_loop")
    /\ i < num_teeth
    /\ \/ /\ teeth' = Union(teeth, Rotate(tooth, Angle(i, num_teeth)))
          /\ i' = i + 1
          /\ Goto("teeth_loop", <<>>)
       \/ Raise /\ UNCHANGED <<teeth, i>>
    /\ UNCHANGED <<dir, wheel, tooth, base_hole, mounting_holes, result,
                   assy, step, shown>>

GW_TeethDone ==
    /\ At(GEAR, "teeth_loop")
    /\ i >= num_teeth
    /\ Goto("combine", <<GearProgress[4]>>)
    /\ UNCHANGED <<dir, i, gear, assy, step, shown>>

GW_Combine ==
    /\ At(GEAR, "combine")
    /\ \/ /\ result' = Union(wheel, teeth)
          /\ Goto("base_hole", <<GearProgress[5]>>)
       \/ Raise /\ UNCHANGED result
    /\ UNCHANGED <<dir, i, wheel, tooth, teeth, base_hole, mounting_holes,
                   assy, step, shown>>

GW_BaseHole ==
    /\ At(GEAR, "base_hole")
    /\ \/ /\ base_hole' = {Feature("add", "mounting_hole")}
          /\ Goto("holes_init", <<>>)
       \/ Raise /\ UNCHANGED base_hole
    /\ UNCHANGED <<dir, i, wheel, tooth, teeth, mounting_holes, result,
                   assy, step, shown>>

GW_HolesInit ==
    /\ At(GEAR, "holes_init")
    /\ \/ /\ mounting_holes' = {} /\ i' = 0
          /\ Goto("holes_loop", <<>>)
       \/ Raise /\ UNCHANGED <<mounting_holes, i>>
    /\ UNCHANGED <<dir, wheel, tooth, teeth, base_hole, result,
                   assy, step, shown>>

\* One pass of "for i in range(num_mounting_holes)".
GW_HolesIter ==
    /\ At(GEAR, "holes_loop")
    /\ i < num_mounting_holes
    /\ \/ /\ mounting_holes' =
                Union(mounting_holes, Rotate(base_hole, Angle(i, num_mounting_holes)))
          /\ i' = i + 1
          /\ Goto("holes_loop", <<>>)
       \/ Raise /\ UNCHANGED <<mounting_holes, i>>
    /\ UNCHANGED <<dir, wheel, tooth, teeth, base_hole, result,
                   assy, step, shown>>

GW_HolesDone ==
    /\ At(GEAR, "holes_loop")
    /\ i >= num_mounting_holes
    /\ Goto("cut", <<GearProgress[6]>>)
    /\ UNCHANGED <<dir, i, gear, assy, step, shown>>

GW_Cut ==
    /\ At(GEAR, "cut")
    /\ \/ /\ result' = Cut(result, mounting_holes)
          /\ Goto("announce", <<GearProgress[7]>>)
       \/ Raise /\ UNCHANGED result
    /\ UNCHANGED <<dir, i, wheel, tooth, teeth, base_hole, mounting_holes,
                   assy, step, shown>>

\* print("Displaying 3D model...") comes before the call it announces.
GW_Announce ==
    /\ At(GEAR, "announce")
    /\ Goto("display", <<GearProgress[8]>>)
    /\ UNCHANGED <<dir, i, gear, assy, step, shown>>

\* vis.show_object(result), then the success banner and the summary.
GW_Display ==
    /\ At(GEAR, "display")
    /\ \/ /\ shown' = Append(shown, ShowDefault("result"))
          /\ Exit(GearSummary)
       \/ Raise /\ UNCHANGED shown
    /\ UNCHANGED <<dir, i, gear, assy, step>>

GearWheel ==
    \/ GW_Body \/ GW_Hole \/ GW_Tooth
    \/ GW_TeethInit \/ GW_TeethIter \/ GW_TeethDone
    \/ GW_Combine
    \/ GW_BaseHole \/ GW_HolesInit \/ GW_HolesIter \/ GW_HolesDone
    \/ GW_Cut \/ GW_Announce \/ GW_Display

----------------------------------------------------------------------------
\* examples/example_1_plate_with_hole.py, example_2_spline.py,
\* example_3_shell.py: build a solid, display it.

EX_Build ==
    /\ \E s \in {PLATE, SPLINE, SHELL} : At(s, "build")
    /\ \/ /\ result' = {Feature("add", script)}
          /\ Goto("display", <<>>)
       \/ Raise /\ UNCHANGED result
    /\ UNCHANGED <<dir, i, wheel, tooth, teeth, base_hole, mounting_holes,
                   assy, step, shown>>

EX_Display ==
    /\ \E s \in {PLATE, SPLINE, SHELL} : At(s, "display")
    /\ \/ /\ shown' = Append(shown, ShowDefault("result"))
          /\ Exit(<<>>)
       \/ Raise /\ UNCHANGED shown
    /\ UNCHANGED <<dir, i, gear, assy, step>>

----------------------------------------------------------------------------
\* examples/example_5_colors.py

Part(n, x, y, c) == [name |-> n, loc |-> <<x, y, 0>>, color |-> c]

ColoredParts ==
    { Part("red_box", 0, 0, <<1, 0, 0, 1>>),
      Part("blue_cylinder", 20, 0, <<0, 0, 1, 1>>),
      Part("green_sphere", 0, 20, <<0, 1, 0, 1>>) }

ColorsSummary ==
    << <<"Assembly created with 3 colored parts:", 0>>,
       <<"- Red box at origin", 0>>,
       <<"- Blue cylinder at (20, 0, 0)", 0>>,
       <<"- Green sphere at (0, 20, 0)", 0>>,
       <<"Assembly saved as 'colored_assembly.step'", 0>> >>

\* The three primitives: box, cylinder, sphere.
CO_Parts ==
    /\ At(COLORS, "parts")
    /\ \/ Goto("assembly", <<>>)
       \/ Raise
    /\ UNCHANGED <<dir, i, gear, assy, step, shown>>

\* Assembly(red_box, ...).add(blue_cylinder, ...).add(green_sphere, ...)
CO_Assembly ==
    /\ At(COLORS, "assembly")
    /\ \/ /\ assy' = ColoredParts
          /\ Goto("show", <<>>)
       \/ Raise /\ UNCHANGED assy
    /\ UNCHANGED <<dir, i, gear, step, shown>>

\* show(assy); assy.save is commented out; the five summary prints.
CO_Show ==
    /\ At(COLORS, "show")
    /\ \/ /\ shown' = Append(shown, ShowDefault("assy"))
          /\ Exit(ColorsSummary)
       \/ Raise /\ UNCHANGED shown
    /\ UNCHANGED <<dir, i, gear, assy, step>>

Colors == CO_Parts \/ CO_Assembly \/ CO_Show

----------------------------------------------------------------------------
\* step_dimension.py, step_render.py, step_view.py, test.py:
\* result = cq.importers.importStep("test.step")

AfterImport(s) == IF s = RENDER THEN "export" ELSE "solids"

STEP_Import ==
    /\ \E s \in {DIMENSION, TEST, RENDER, VIEW} : At(s, "import")
    /\ reads' = reads \cup {STEP_FILE}
    /\ \/ /\ fs[STEP_FILE].exists
          /\ imported' = fs[STEP_FILE].data
          /\ Goto(AfterImport(script), <<>>)
       \/ Raise /\ UNCHANGED imported
    /\ UNCHANGED <<fs, input, writes, i, gear, assy, all_solids,
                   remaining_solids, shown>>

----------------------------------------------------------------------------
\* step_render.py

\* exporters.export(result, 'test2.svg')
R_Export ==
    /\ At(RENDER, "export")
    /\ \/ /\ fs' = [fs EXCEPT ![ExportTarget] = File("svg", imported)]
          /\ writes' = writes \cup {ExportTarget}
          /\ Exit(<<>>)
       \/ Raise /\ UNCHANGED <<fs, writes>>
    /\ UNCHANGED <<input, reads, i, gear, assy, step, shown>>

----------------------------------------------------------------------------
\* step_dimension.py

Dashes == <<"--------------------", 0>>

DimensionHeader(n) == << <<"Found {len(all_solids)} solid(s).", n>>, Dashes >>

DimensionBlock(idx, solid) ==
    << <<"Solid {i+1}:", SolidNumber(idx)>>,
       <<"  Length (X): {bb.xlen:.2f}", solid>>,
       <<"  Width  (Y): {bb.ylen:.2f}", solid>>,
       <<"  Height (Z): {bb.zlen:.2f}", solid>>,
       Dashes >>

TotalBlock ==
    << <<"Total Dimensions of the Entire Part:", 0>>,
       <<"  Length (X): {total_bb.xlen:.2f}", 0>>,
       <<"  Width  (Y): {total_bb.ylen:.2f}", 0>>,
       <<"  Height (Z): {total_bb.zlen:.2f}", 0>>,
       Dashes >>

SD_Solids ==
    /\ At(DIMENSION, "solids")
    /\ \/ /\ all_solids' = imported /\ i' = 0
          /\ Goto("loop", DimensionHeader(Len(imported)))
       \/ Raise /\ UNCHANGED <<all_solids, i>>
    /\ UNCHANGED <<dir, gear, assy, imported, remaining_solids, shown>>

\* One pass of "for i, solid in enumerate(all_solids)".
SD_Iter ==
    /\ At(DIMENSION, "loop")
    /\ i < Len(all_solids)
    /\ \/ /\ i' = i + 1
          /\ Goto("loop", DimensionBlock(i, all_solids[i + 1]))
       \/ Raise /\ UNCHANGED i
    /\ UNCHANGED <<dir, gear, assy, step, shown>>

\* total_bb = result.val().BoundingBox() and the total block.
SD_Total ==
    /\ At(DIMENSION, "loop")
    /\ i >= Len(all_solids)
    /\ \/ Exit(TotalBlock)
       \/ Raise
    /\ UNCHANGED <<dir, i, gear, assy, step, shown>>

Dimension == SD_Solids \/ SD_Iter \/ SD_Total

----------------------------------------------------------------------------
\* test.py

TestHeader(n) == << <<"Found {len(solids)} solid(s)", n>> >>

\* The lines of one pass whose calls Faces, Edges, Vertices succeed up to
\* the k-th (k = 3: all of them).
TestBlock(idx, solid, k) ==
    SubSeq(<< <<"  Solid {i+1}:", SolidNumber(idx)>>,
              <<"    Found {len(faces)} face(s)", solid>>,
              <<"    Found {len(edges)} edge(s)", solid>>,
              <<"    Found {len(vertices)} vertex(s)", solid>> >>, 1, k + 1)

T_Solids ==
    /\ At(TEST, "solids")
    /\ \/ /\ all_solids' = imported /\ i' = 0
          /\ Goto("loop", TestHeader(Len(imported)))
       \/ Raise /\ UNCHANGED <<all_solids, i>>
    /\ UNCHANGED <<dir, gear, assy, imported, remaining_solids, shown>>

\* One pass of "for i, solid in enumerate(solids)"; a call that raises
\* leaves the lines printed before it.
T_Iter ==
    /\ At(TEST, "loop")
    /\ i < Len(all_solids)
    /\ \/ /\ i' = i + 1
          /\ Goto("loop", TestBlock(i, all_solids[i + 1], 3))
       \/ \E k \in 0..2 :
             /\ pc' = Unwind(script, pc).pc
             /\ status' = Unwind(script, pc).status
             /\ out' = out \o TestBlock(i, all_solids[i + 1], k)
                          \o Unwind(script, pc).lines
             /\ failedAt' = pc
             /\ UNCHANGED <<script, i>>
    /\ UNCHANGED <<dir, gear, assy, step, shown>>

T_Done ==
    /\ At(TEST, "loop")
    /\ i >= Len(all_solids)
    /\ Exit(<<>>)
    /\ UNCHANGED <<dir, i, gear, assy, step, shown>>

Test == T_Solids \/ T_Iter \/ T_Done

----------------------------------------------------------------------------
\* step_view.py

\* if len(all_solids) > 8
RemovalBranch(solids) == Len(solids) > RemoveThreshold

\* remaining_solids = all_solids[13:]
Remaining(solids) == Slice(solids, SliceStart)

ViewShow(kind, solids) ==
    ShowCall(kind, solids, ShowWidth, ShowHeight, Screenshot, ShowZoom,
             ShowRoll, ShowElevation, FALSE)

SV_Solids ==
    /\ At(VIEW, "solids")
    /\ \/ /\ all_solids' = imported
          /\ Goto("branch", << <<"Found {len(all_solids)} solids in the original object.",
                                 Len(imported)>> >>)
       \/ Raise /\ UNCHANGED all_solids
    /\ UNCHANGED <<dir, i, gear, assy, imported, remaining_solids, shown>>

SV_Branch ==
    /\ At(VIEW, "branch")
    /\ IF RemovalBranch(all_solids)
       THEN /\ remaining_solids' = Remaining(all_solids)
            /\ Goto("inner", << <<"Keeping {len(remaining_solids)} solids after removing the first 5.",
                                  Len(Remaining(all_solids))>> >>)
       ELSE /\ Goto("show_original",
                    << <<"Fewer than 6 solids found, so none were removed.", 0>> >>)
            /\ UNCHANGED remaining_solids
    /\ UNCHANGED <<dir, i, gear, assy, imported, all_solids, shown>>

\* "if remaining_solids:" with Compound.makeCompound, or the else branch.
SV_Inner ==
    /\ At(VIEW, "inner")
    /\ IF remaining_solids # <<>>
       THEN \/ Goto("show_remaining",
                    << <<"Showing the object with the first 5 solids removed.", 0>> >>)
            \/ Raise
       ELSE Exit(<< <<"No solids remaining after removal.", 0>> >>)
    /\ UNCHANGED <<dir, i, gear, assy, step, shown>>

SV_ShowRemaining ==
    /\ At(VIEW, "show_remaining")
    /\ \/ /\ shown' = Append(shown, ViewShow("remaining_shape", remaining_solids))
          /\ fs' = [fs EXCEPT ![Screenshot] = File("png", remaining_solids)]
          /\ writes' = writes \cup {Screenshot}
          /\ Exit(<<>>)
       \/ Raise /\ UNCHANGED <<shown, fs, writes>>
    /\ UNCHANGED <<input, reads, i, gear, assy, step>>

SV_ShowOriginal ==
    /\ At(VIEW, "show_original")
    /\ \/ /\ shown' = Append(shown, ViewShow("result", imported))
          /\ fs' = [fs EXCEPT ![Screenshot] = File("png", imported)]
          /\ writes' = writes \cup {Screenshot}
          /\ Exit(<<>>)
       \/ Raise /\ UNCHANGED <<shown, fs, writes>>
    /\ UNCHANGED <<input, reads, i, gear, assy, step>>

View == SV_Solids \/ SV_Branch \/ SV_Inner \/ SV_ShowRemaining \/ SV_ShowOriginal

----------------------------------------------------------------------------
\* A statement of the running script.
Run ==
    \/ GearWheel \/ EX_Build \/ EX_Display \/ Colors
    \/ STEP_Import \/ R_Export \/ Dimension \/ Test \/ View

Next == Start \/ Run

Spec == Init /\ [][Next]_vars

\* The interpreter runs the script's statements one after the other, and
\* every library call returns or raises.
FairSpec == Spec /\ WF_vars(Run)

----------------------------------------------------------------------------
\* Properties

Range(s) == {s[k] : k \in 1..Len(s)}

\* The statements of the guarded body in program order, and the step of
\* the script (1 body, 2 centre hole, 3 tooth profile, 4 teeth, 5 union,
\* 6 mounting holes, 7 cut, 8 display) each belongs to.
GearStatements ==
    <<"body", "hole", "tooth", "teeth_init", "teeth_loop", "combine",
      "base_hole", "holes_init", "holes_loop", "cut", "announce", "display">>

GearStepOf == <<1, 2, 3, 4, 4, 5, 6, 6, 6, 7, 8, 8>>

Pos(p) == CHOOSE k \in 1..Len(GearStatements) : GearStatements[k] = p

StepOf(p) == GearStepOf[Pos(p)]

GearFailed == script = GEAR /\ failedAt # ""

ErrorMessage == <<"Error creating geared wheel: {e}", 0>>

HintLine ==
    <<"This might be due to CadQuery version compatibility or geometry issues.", 0>>

\* C1: in the geared-wheel script an exception raised by any call of the
\* guarded body is swallowed: the run ends normally, the last two lines of
\* its output are the error message and the hint, and no statement after
\* the failing one has run (what the later statements assign or print is
\* still as the start of the run left it).
C1_ExceptionSwallowed ==
    GearFailed =>
        /\ status = "exit0"
        /\ pc = "done"
        /\ Len(out) >= 2
        /\ out[Len(out) - 1] = ErrorMessage
        /\ out[Len(out)] = HintLine
        /\ GearBanner \notin Range(out)
        /\ \A k \in 1..7 : k >= StepOf(failedAt) => GearProgress[k] \notin Range(out)
        /\ Pos(failedAt) <= Pos("body") => wheel = {}
        /\ Pos(failedAt) <= Pos("tooth") => tooth = {}
        /\ Pos(failedAt) <= Pos("teeth_init") => teeth = {}
        /\ failedAt = "teeth_loop" => Cardinality(teeth) = i /\ i < num_teeth
        /\ Pos(failedAt) <= Pos("combine") => result = {}
        /\ Pos(failedAt) <= Pos("base_hole") => base_hole = {}
        /\ Pos(failedAt) <= Pos("holes_init") => mounting_holes = {}
        /\ failedAt = "holes_loop" =>
              Cardinality(mounting_holes) = i /\ i < num_mounting_holes
        /\ Pos(failedAt) <= Pos("cut") => \A f \in result : f.kind # "mounting_hole"
        /\ shown = <<>>

C1_Witness ==
    /\ GearFailed /\ failedAt = "teeth_loop" /\ i = 7
    /\ out = SubSeq(GearProgress, 1, 3) \o ErrorLines

\* The copies a pattern loop has unioned in after n passes over count
\* positions: copy k is the base shape turned by k * 360 / count degrees.
IsPattern(acc, kind, n, count) ==
    /\ Cardinality(acc) = n
    /\ \A f \in acc : f.op = "add" /\ f.kind = kind /\ 0 <= f.rot /\ f.rot < 360
    /\ \A k \in 0..(n - 1) : \E f \in acc : f.rot * count = k * 360

TeethDone == script = GEAR /\ Len(out) >= 4 /\ out[4] = GearProgress[4]

HolesDone == script = GEAR /\ Len(out) >= 6 /\ out[6] = GearProgress[6]

\* C2: each pattern loop of the geared-wheel script runs exactly N times
\* (N = 20 teeth, N = 4 mounting holes); pass i unions in one copy of the
\* base shape turned by i * 360 / N degrees; the base shape stays what it
\* was; the N angles are pairwise distinct and lie in [0, 360); after the
\* loop the accumulator holds exactly the N copies.
C2_PatternLoops ==
    script = GEAR =>
        /\ tooth \subseteq {Feature("add", "tooth")}
        /\ base_hole \subseteq {Feature("add", "mounting_hole")}
        /\ At(GEAR, "teeth_loop") =>
              i <= num_teeth /\ IsPattern(teeth, "tooth", i, num_teeth)
        /\ At(GEAR, "holes_loop") =>
              /\ i <= num_mounting_holes
              /\ IsPattern(mounting_holes, "mounting_hole", i, num_mounting_holes)
        /\ At(GEAR, "combine") => i = num_teeth
        /\ TeethDone => IsPattern(teeth, "tooth", num_teeth, num_teeth)
        /\ HolesDone =>
              /\ i = num_mounting_holes
              /\ IsPattern(mounting_holes, "mounting_hole",
                           num_mounting_holes, num_mounting_holes)
              /\ tooth = {Feature("add", "tooth")}
              /\ base_hole = {Feature("add", "mounting_hole")}

C2_Witness ==
    /\ At(GEAR, "cut")
    /\ Cardinality(teeth) = 20
    /\ Cardinality(mounting_holes) = 4
    /\ [op |-> "add", kind |-> "tooth", rot |-> 342] \in teeth
    /\ [op |-> "add", kind |-> "mounting_hole", rot |-> 270] \in mounting_holes

Readers == {DIMENSION, RENDER, VIEW, TEST}

Unguarded == Scripts \ {GEAR}

\* C4: in every script but the geared-wheel script a library call that
\* raises ends the run as an uncaught fault at that statement: nothing is
\* printed, shown or written after it.
C4_FaultPropagates ==
    (script \in Unguarded /\ failedAt # "") =>
        /\ status = "fault"
        /\ pc = failedAt
        /\ writes = {}
        /\ shown = <<>>
        /\ failedAt \in {"import", "build", "parts", "assembly", "show"} => out = <<>>
        /\ failedAt = "import" => imported = <<>> /\ all_solids = <<>>
        /\ failedAt = "solids" => out = <<>> /\ all_solids = <<>>
        /\ (script = DIMENSION /\ failedAt = "loop") =>
              /\ Len(out) = 2 + 5 * i
              /\ TotalBlock[1] \notin Range(out)
        /\ (script = TEST /\ failedAt = "loop") =>
              /\ i < Len(all_solids)
              /\ Len(out) \in (1 + 4 * i + 1)..(1 + 4 * i + 3)
        /\ script = VIEW => Len(out) <= 3

C4_Witness ==
    /\ script = VIEW /\ failedAt = "import" /\ status = "fault"
    /\ ~input.exists /\ ~fs[PNG_FILE].exists

ViewEnded == script = VIEW /\ status = "exit0"

\* C5: every run of step_view that ends normally has written img.png
\* exactly once, showing the compound of the kept solids or the original
\* object, with width 800, height 800, zoom 2, roll -20, elevation -30
\* and interact False.
C5_ScreenshotOnce ==
    ViewEnded =>
        /\ Len(shown) = 1
        /\ PNG_FILE \in writes
        /\ shown[1].screenshot = "img.png"
        /\ shown[1].kind \in {"remaining_shape", "result"}
        /\ shown[1].width = 800 /\ shown[1].height = 800
        /\ shown[1].zoom = 2 /\ shown[1].roll = -20
        /\ shown[1].elevation = -30 /\ shown[1].interact = FALSE

KeepingLine == "Keeping {len(remaining_solids)} solids after removing the first 5."

FewerLine == "Fewer than 6 solids found, so none were removed."

Branched == script = VIEW /\ Len(out) >= 2

\* C6: when step_view removes solids it removes exactly the first 5: the
\* kept solids are those from the 6th on, in their order, and the count in
\* the 'Keeping K solids' line is K = n - 5 for an input of n solids.
C6_RemovesFirstFive ==
    (Branched /\ out[2][1] = KeepingLine) =>
        /\ remaining_solids = SubSeq(all_solids, 6, Len(all_solids))
        /\ out[2][2] = Len(all_solids) - 5

\* C7: step_view takes the 'Fewer than 6 solids' branch exactly when the
\* imported object has 5 or fewer solids, and the removal branch for every
\* input with 6 or more.
C7_FewerThanSix ==
    Branched =>
        /\ out[2][1] = FewerLine <=> Len(all_solids) <= 5
        /\ out[2][1] = KeepingLine <=> Len(all_solids) >= 6

SavedLine == <<"Assembly saved as 'colored_assembly.step'", 0>>

\* C8: the colored-assembly script prints "Assembly saved as
\* 'colored_assembly.step'" only once the assembly of the three colored
\* parts has been saved to colored_assembly.step.
C8_SavedBeforeSaid ==
    (script = COLORS /\ SavedLine \in Range(out)) =>
        /\ assy = ColoredParts
        /\ fs[ASSY_FILE].exists
        /\ ASSY_FILE \in writes

\* The progress lines of out, in the order printed.
ProgressOf(o) == SelectSeq(o, LAMBDA l : l \in Range(GearProgress))

IsPrefix(a, b) == Len(a) <= Len(b) /\ a = SubSeq(b, 1, Len(a))

\* What step k of the geared wheel leaves behind once it has completed.
StepDone(k) ==
    CASE k = 1 -> Feature("add", "cylinder") \in wheel
      [] k = 2 -> Feature("cut", "center_hole") \in wheel
      [] k = 3 -> tooth = {Feature("add", "tooth")}
      [] k = 4 -> Cardinality(teeth) = num_teeth
      [] k = 5 -> wheel \subseteq result /\ teeth \subseteq result
      [] k = 6 -> Cardinality(mounting_holes) = num_mounting_holes
      [] k = 7 -> Cardinality({f \in result : f.op = "cut" /\ f.kind = "mounting_hole"})
                     = num_mounting_holes
      [] k = 8 -> shown # <<>>

GearEnded == script = GEAR /\ status # "running"

GearOutcome ==
    /\ status = "exit0"
    /\ (GearBanner \in Range(out)) # (ErrorMessage \in Range(out))

\* C9 as first stated, of the geared-wheel script: a run that has
\* ended printed exactly one of the banner and the error message; the
\* banner only if every step succeeded; each of the eight progress lines
\* only after the step it names completed; the lines in the order of the
\* steps; and on a failure at step k exactly the progress lines of the
\* steps before k, then the two error lines.
C9_AsClaimed ==
    script = GEAR =>
        /\ GearEnded => GearOutcome
        /\ GearBanner \in Range(out) => failedAt = "" /\ \A k \in 1..8 : StepDone(k)
        /\ \A k \in 1..8 : GearProgress[k] \in Range(out) => StepDone(k)
        /\ IsPrefix(ProgressOf(out), GearProgress)
        /\ GearFailed =>
              out = SubSeq(GearProgress, 1, StepOf(failedAt) - 1)
                       \o <<ErrorMessage, HintLine>>

\* The progress lines printed before a failure at step k: line 8,
\* 'Displaying 3D model...', is printed before show_object is called.
LinesBefore(k) == IF k = 8 THEN 8 ELSE k - 1

C9_Outcome ==
    script = GEAR =>
        /\ GearEnded => GearOutcome
        /\ GearBanner \in Range(out) =>
              /\ failedAt = "" /\ \A k \in 1..8 : StepDone(k)
              /\ out = GearProgress \o GearSummary
        /\ \A k \in 1..7 : GearProgress[k] \in Range(out) => StepDone(k)
        /\ GearProgress[8] \in Range(out) => StepDone(7)
        /\ IsPrefix(ProgressOf(out), GearProgress)
        /\ GearFailed =>
              out = SubSeq(GearProgress, 1, LinesBefore(StepOf(failedAt)))
                       \o <<ErrorMessage, HintLine>>

\* C9 (amended): every run of the geared-wheel script terminates, having
\* printed exactly one of the success banner and the error message; the
\* banner only if every step including show_object succeeded; progress
\* lines 1 to 7 only after the step they name completed, and line 8,
\* 'Displaying 3D model...', after the cut and before show_object is
\* called; the lines in the order of the steps; on a failure at step
\* k <= 7 the output is the progress lines of the steps before k followed
\* by the two error lines, and on a failure of show_object it is all eight
\* progress lines followed by the two error lines.
C9_RunOutcome ==
    /\ []C9_Outcome
    /\ (script = GEAR /\ status = "running") ~> (GearEnded /\ GearOutcome)

C9_Witness ==
    /\ GearFailed /\ failedAt = "display"
    /\ out = GearProgress \o <<ErrorMessage, HintLine>>

StepEnded == script \in {DIMENSION, TEST} /\ status = "exit0"

BlockSize == IF script = DIMENSION THEN 5 ELSE 4

HeaderSize == IF script = DIMENSION THEN 2 ELSE 1

FoundLines(o) == {k \in 1..Len(o) : o[k][1] \in {"Found {len(all_solids)} solid(s).",
                                                 "Found {len(solids)} solid(s)"}}

\* C10: a run of step_dimension or test that ends normally on an object of
\* n solids has printed the 'Found n solid(s)' header once, first, then
\* exactly n per-solid blocks, block k headed 'Solid k' and reporting the
\* k-th solid the library returned (none for n = 0); step_dimension then
\* prints the total-dimensions block, once, last.
C10_PerSolidBlocks ==
    StepEnded =>
        LET n == Len(input.data)
            tail == IF script = DIMENSION THEN 5 ELSE 0
        IN  /\ Len(out) = HeaderSize + n * BlockSize + tail
            /\ FoundLines(out) = {1}
            /\ out[1][2] = n
            /\ \A k \in 1..n :
                  LET at == HeaderSize + (k - 1) * BlockSize IN
                  /\ out[at + 1] = <<IF script = DIMENSION THEN "Solid {i+1}:"
                                     ELSE "  Solid {i+1}:", k>>
                  /\ \A j \in 2..4 : out[at + j][2] = input.data[k]
            /\ script = DIMENSION =>
                  /\ SubSeq(out, Len(out) - 4, Len(out)) = TotalBlock
                  /\ {k \in 1..Len(out) : out[k] = TotalBlock[1]} = {Len(out) - 4}

C10_Witness ==
    /\ script = DIMENSION /\ status = "exit0"
    /\ Len(all_solids) = 3
    /\ Len(out) = 22

=============================================================================
